---- MODULE Spec2Model ----
(***************************************************************************)
(* State-machine model of embassy-net's ICMP socket adapter                *)
(* (embassy-net/src/icmp.rs): IcmpSocket::new, with_mut, poll_recv/recv,   *)
(* poll_send/send, flush and Drop, on top of the smoltcp socket set and    *)
(* the packet engine that fills and drains the sockets' packet buffers.    *)
(***************************************************************************)
EXTENDS Integers, Sequences, FiniteSets, TLC

\* ------------------------------------------------------------- bounds
\* Slots of the stack's socket set; as many adapters can be alive.
MaxSockets == 2
\* Tasks (callers) that poll the adapters; a task's id is its waker.
MaxTasks == 2
\* Entries of the rx_meta / tx_meta slices handed to new().
MetaCap == 2
\* Bytes of the rx_buffer / tx_buffer slices handed to new().
BufCap == 3
\* Longest datagram payload and largest receive buffer of a caller.
MaxLen == 2
\* Specified IP addresses 1..MaxAddr; address 0 is the unspecified address.
MaxAddr == 2

Handles == 1..MaxSockets
Adapters == 1..MaxSockets
Tasks == 1..MaxTasks

\* Payloads: a one-byte datagram and one of MaxLen bytes, all bytes distinct.
ShortData == <<1>>
LongData == [i \in 1..MaxLen |-> i]
Payloads == {ShortData, LongData}
\* Sizes of the buffers callers hand to recv.
Caps == {1, MaxLen}
\* Datagrams the network delivers: payload and source address.
RxPackets == {[data |-> ShortData, addr |-> 1], [data |-> LongData, addr |-> MaxAddr]}

\* icmp::Endpoint values handed to new(): Unspecified, Ident(id) and
\* Udp(IpListenEndpoint { addr: Option<IpAddress>, port }).
Endpoints ==
    { [kind |-> "Unspecified", has_addr |-> FALSE, addr |-> 0, port |-> 0],
      [kind |-> "Ident", has_addr |-> FALSE, addr |-> 0, port |-> 1],
      [kind |-> "Udp", has_addr |-> FALSE, addr |-> 0, port |-> 1],
      [kind |-> "Udp", has_addr |-> TRUE, addr |-> 0, port |-> 1],
      [kind |-> "Udp", has_addr |-> TRUE, addr |-> 1, port |-> 1],
      [kind |-> "Udp", has_addr |-> TRUE, addr |-> 1, port |-> 0] }

VARIABLES
    adapters,   \* adapter id -> IcmpSocket { handle, endpoint } or dead
    sockets,    \* handle -> slot of the stack's socket set
    ops,        \* task -> the operation (future) it has pending
    woken,      \* tasks whose waker has been woken and not yet re-polled
    last        \* the call that produced this state, with its result

vars == <<adapters, sockets, ops, woken, last>>

\* ------------------------------------------------------------- values
EmptySlot == [used |-> FALSE, rx |-> <<>>, tx |-> <<>>, rx_waker |-> 0, tx_waker |-> 0]
DeadAdapter == [alive |-> FALSE, handle |-> 0, endpoint |-> CHOOSE e \in Endpoints : e.kind = "Unspecified"]
NoOp == [kind |-> "none", a |-> 0, cap |-> 0, data |-> <<>>, redo |-> FALSE]

RECURSIVE QueuedBytes(_)
QueuedBytes(q) == IF q = <<>> THEN 0 ELSE Len(Head(q).data) + QueuedBytes(Tail(q))

\* ------------------------------------------- smoltcp socket primitives
\* icmp::Endpoint::is_specified
is_specified(ep) ==
    CASE ep.kind = "Unspecified" -> FALSE
      [] ep.kind = "Ident" -> TRUE
      [] OTHER -> ep.port # 0

\* icmp::Socket::new over fresh PacketBuffers
icmp_Socket_new == [used |-> TRUE, rx |-> <<>>, tx |-> <<>>, rx_waker |-> 0, tx_waker |-> 0]

\* PacketBuffer::enqueue succeeds
HasRoom(q, len) == Len(q) < MetaCap /\ QueuedBytes(q) + len <= BufCap

\* icmp::Socket::recv_slice: dequeues the head datagram, also when it is
\* larger than the caller's buffer (the datagram is then dropped).
recv_slice(s, cap) ==
    IF s.rx = <<>>
    THEN [res |-> "Exhausted", n |-> 0, src |-> 0, bytes |-> <<>>, sock |-> s]
    ELSE LET d == Head(s.rx)
             s2 == [s EXCEPT !.rx = Tail(s.rx)]
         IN IF cap < Len(d.data)
            THEN [res |-> "Truncated", n |-> 0, src |-> 0, bytes |-> <<>>, sock |-> s2]
            ELSE [res |-> "Ok", n |-> Len(d.data), src |-> d.addr, bytes |-> d.data, sock |-> s2]

\* icmp::Socket::send_slice
send_slice(s, data, dst) ==
    IF dst = 0
    THEN [res |-> "Unaddressable", sock |-> s]
    ELSE IF ~HasRoom(s.tx, Len(data))
    THEN [res |-> "BufferFull", sock |-> s]
    ELSE [res |-> "Ok", sock |-> [s EXCEPT !.tx = Append(s.tx, [data |-> data, addr |-> dst])]]

\* icmp::Socket::send_queue
send_queue(s) == Len(s.tx)

\* icmp::Socket::register_recv_waker / register_send_waker: one slot each
register_recv_waker(s, w) == [s EXCEPT !.rx_waker = w]
register_send_waker(s, w) == [s EXCEPT !.tx_waker = w]

\* SocketSet::add: the first free slot
sockets_add(set) == CHOOSE h \in Handles : ~set[h].used /\ \A g \in Handles : g < h => set[g].used

\* SocketSet::remove
sockets_remove(set, h) == [set EXCEPT ![h] = EmptySlot]

\* ------------------------------------------------------ the adapter
\* Result of one call: poll is "Ready", "Pending" or "panic".
Res(poll, val, n, src, bytes, sock) ==
    [poll |-> poll, val |-> val, n |-> n, src |-> src, bytes |-> bytes,
     sock |-> sock, acc |-> 0, ntf |-> 0]

\* with_mut that leaves out i.waker.wake()
with_mut_nowake(r) == [r EXCEPT !.acc = @ + 1]

\* IcmpSocket::with_mut: f runs under stack.with_mut, then i.waker.wake()
with_mut(r) == [r EXCEPT !.acc = @ + 1, !.ntf = IF r.poll = "panic" THEN 0 ELSE 1]

\* poll_recv that keeps reading until the receive queue is empty
poll_recv_drain(s, cap, w) ==
    with_mut(LET r == recv_slice(s, cap)
             IN CASE r.res = "Ok" -> Res("Ready", "Ok", r.n, r.src, r.bytes, [r.sock EXCEPT !.rx = <<>>])
                  [] r.res = "Truncated" -> Res("Ready", "Truncated", 0, 0, <<>>, r.sock)
                  [] OTHER -> Res("Pending", "none", 0, 0, <<>>, register_recv_waker(r.sock, w)))

\* poll_recv that reports a datagram too large for the buffer as Exhausted
poll_recv_exhausted(s, cap, w) ==
    with_mut(LET r == recv_slice(s, cap)
             IN CASE r.res = "Ok" -> Res("Ready", "Ok", r.n, r.src, r.bytes, r.sock)
                  [] r.res = "Truncated" -> Res("Ready", "Exhausted", 0, 0, <<>>, r.sock)
                  [] OTHER -> Res("Pending", "none", 0, 0, <<>>, register_recv_waker(r.sock, w)))

\* poll_recv that leaves a waker that is already registered in place
poll_recv_keepwaker(s, cap, w) ==
    with_mut(LET r == recv_slice(s, cap)
             IN CASE r.res = "Ok" -> Res("Ready", "Ok", r.n, r.src, r.bytes, r.sock)
                  [] r.res = "Truncated" -> Res("Ready", "Truncated", 0, 0, <<>>, r.sock)
                  [] OTHER -> Res("Pending", "none", 0, 0, <<>>,
                                  IF r.sock.rx_waker = 0
                                  THEN register_recv_waker(r.sock, w) ELSE r.sock))

\* poll_recv that waits for another datagram after one that was too large
poll_recv_retry(s, cap, w) ==
    with_mut(LET r == recv_slice(s, cap)
             IN CASE r.res = "Ok" -> Res("Ready", "Ok", r.n, r.src, r.bytes, r.sock)
                  [] OTHER -> Res("Pending", "none", 0, 0, <<>>, register_recv_waker(r.sock, w)))

\* poll_recv that looks at the queue in one access and registers the waker
\* in a second one
poll_recv_twice(s, cap, w) ==
    LET r == with_mut(LET c == recv_slice(s, cap)
                      IN CASE c.res = "Ok" -> Res("Ready", "Ok", c.n, c.src, c.bytes, c.sock)
                           [] c.res = "Truncated" -> Res("Ready", "Truncated", 0, 0, <<>>, c.sock)
                           [] OTHER -> Res("Pending", "none", 0, 0, <<>>, c.sock))
    IN IF r.poll = "Pending"
       THEN with_mut([r EXCEPT !.sock = register_recv_waker(r.sock, w)])
       ELSE r

\* poll_recv that suspends without registering the caller's waker
poll_recv_norearm(s, cap, w) ==
    with_mut(LET r == recv_slice(s, cap)
             IN CASE r.res = "Ok" -> Res("Ready", "Ok", r.n, r.src, r.bytes, r.sock)
                  [] r.res = "Truncated" -> Res("Ready", "Truncated", 0, 0, <<>>, r.sock)
                  [] OTHER -> Res("Pending", "none", 0, 0, <<>>, r.sock))

\* poll_recv that returns Exhausted to the caller instead of suspending
poll_recv_noblock(s, cap, w) ==
    with_mut(LET r == recv_slice(s, cap)
             IN CASE r.res = "Ok" -> Res("Ready", "Ok", r.n, r.src, r.bytes, r.sock)
                  [] r.res = "Truncated" -> Res("Ready", "Truncated", 0, 0, <<>>, r.sock)
                  [] OTHER -> Res("Ready", "Exhausted", 0, 0, <<>>, r.sock))

\* IcmpSocket::poll_recv
poll_recv(s, cap, w) ==
    with_mut(LET r == recv_slice(s, cap)
             IN CASE r.res = "Ok" -> Res("Ready", "Ok", r.n, r.src, r.bytes, r.sock)
                  [] r.res = "Truncated" -> Res("Ready", "Truncated", 0, 0, <<>>, r.sock)
                  [] OTHER -> Res("Pending", "none", 0, 0, <<>>, register_recv_waker(r.sock, w)))

\* poll_send without the early return on an unspecified endpoint
poll_send_nocheck(ep, s, buf, w) ==
    IF ep.kind # "Udp"
    THEN Res("panic", "todo", 0, 0, <<>>, s)
    ELSE IF ~ep.has_addr
    THEN Res("panic", "expect", 0, 0, <<>>, s)
    ELSE with_mut(LET r == send_slice(s, buf, ep.addr)
                  IN CASE r.res = "Ok" -> Res("Ready", "Ok", 0, 0, <<>>, r.sock)
                       [] r.res = "BufferFull" ->
                            Res("Pending", "none", 0, 0, <<>>, register_send_waker(r.sock, w))
                       [] OTHER -> Res("panic", "unimplemented", 0, 0, <<>>, r.sock))

\* poll_send that hands send_slice only the first byte of the buffer
poll_send_partial(ep, s, buf, w) ==
    IF ~is_specified(ep)
    THEN Res("Pending", "none", 0, 0, <<>>, s)
    ELSE IF ep.kind # "Udp"
    THEN Res("panic", "todo", 0, 0, <<>>, s)
    ELSE IF ~ep.has_addr
    THEN Res("panic", "expect", 0, 0, <<>>, s)
    ELSE with_mut(LET r == send_slice(s, SubSeq(buf, 1, 1), ep.addr)
                  IN CASE r.res = "Ok" -> Res("Ready", "Ok", 0, 0, <<>>, r.sock)
                       [] r.res = "BufferFull" ->
                            Res("Pending", "none", 0, 0, <<>>, register_send_waker(r.sock, w))
                       [] OTHER -> Res("panic", "unimplemented", 0, 0, <<>>, r.sock))

\* IcmpSocket::poll_send
poll_send(ep, s, buf, w) ==
    IF ~is_specified(ep)
    THEN Res("Pending", "none", 0, 0, <<>>, s)
    ELSE IF ep.kind # "Udp"
    THEN Res("panic", "todo", 0, 0, <<>>, s)
    ELSE IF ~ep.has_addr
    THEN Res("panic", "expect", 0, 0, <<>>, s)
    ELSE with_mut(LET r == send_slice(s, buf, ep.addr)
                  IN CASE r.res = "Ok" -> Res("Ready", "Ok", 0, 0, <<>>, r.sock)
                       [] r.res = "BufferFull" ->
                            Res("Pending", "none", 0, 0, <<>>, register_send_waker(r.sock, w))
                       [] OTHER -> Res("panic", "unimplemented", 0, 0, <<>>, r.sock))

\* flush that is satisfied once the last datagram is the only one queued
poll_flush_early(s, w) ==
    with_mut(IF send_queue(s) <= 1
             THEN Res("Ready", "Ok", 0, 0, <<>>, s)
             ELSE Res("Pending", "none", 0, 0, <<>>, register_send_waker(s, w)))

\* flush that suspends without registering the caller's waker
poll_flush_norearm(s, w) ==
    with_mut(IF send_queue(s) = 0
             THEN Res("Ready", "Ok", 0, 0, <<>>, s)
             ELSE Res("Pending", "none", 0, 0, <<>>, s))

\* the closure polled by IcmpSocket::flush
poll_flush(s, w) ==
    with_mut(IF send_queue(s) = 0
             THEN Res("Ready", "Ok", 0, 0, <<>>, s)
             ELSE Res("Pending", "none", 0, 0, <<>>, register_send_waker(s, w)))

\* ------------------------------------------------------------ actions
\* The record of one call: its arguments, its result, the socket as it was
\* before the call (pre), the exclusive accesses it took (acc), the driver
\* notifications it made (ntf), the call before it (prev), and whether the
\* operation polled was issued right after a pending one was dropped (redo).
CallRecord(op, a, t, cap, data, r, pre, prev) ==
    [op |-> op, a |-> a, t |-> t, cap |-> cap, data |-> data,
     poll |-> r.poll, val |-> r.val, n |-> r.n, src |-> r.src, bytes |-> r.bytes,
     pre |-> pre, acc |-> r.acc, ntf |-> r.ntf, prev |-> prev, redo |-> FALSE]

Call(op, a, t, cap, data, r, pre) ==
    CallRecord(op, a, t, cap, data, r, pre, [op |-> last.op, val |-> last.val])

NoRes == Res("none", "none", 0, 0, <<>>, EmptySlot)

Running == last.poll # "panic"

Init ==
    /\ adapters = [a \in Adapters |-> DeadAdapter]
    /\ sockets = [h \in Handles |-> EmptySlot]
    /\ ops = [t \in Tasks |-> NoOp]
    /\ woken = {}
    /\ last = CallRecord("init", 0, 0, 0, <<>>, NoRes, EmptySlot, [op |-> "init", val |-> "none"])

\* What a drop finds in the socket: datagrams still queued, or none.
Residue(s) == IF s.rx # <<>> \/ s.tx # <<>> THEN "queued" ELSE "none"

\* new that builds the socket over the packet buffers as the adapter dropped
\* just before left them, without PacketBuffer::new
New_stale(a, ep) ==
    /\ Running
    /\ ~adapters[a].alive
    /\ LET h == sockets_add(sockets)
       IN /\ sockets' = [sockets EXCEPT ![h] =
                  IF last.op = "drop"
                  THEN [icmp_Socket_new EXCEPT !.rx = last.pre.rx, !.tx = last.pre.tx]
                  ELSE icmp_Socket_new]
          /\ adapters' = [adapters EXCEPT ![a] = [alive |-> TRUE, handle |-> h, endpoint |-> ep]]
          /\ last' = Call("new", a, 0, 0, <<>>, [NoRes EXCEPT !.acc = 1], sockets[h])
    /\ UNCHANGED <<ops, woken>>

\* IcmpSocket::new
New(a, ep) ==
    /\ Running
    /\ ~adapters[a].alive
    /\ LET h == sockets_add(sockets)
       IN /\ sockets' = [sockets EXCEPT ![h] = icmp_Socket_new]
          /\ adapters' = [adapters EXCEPT ![a] = [alive |-> TRUE, handle |-> h, endpoint |-> ep]]
          /\ last' = Call("new", a, 0, 0, <<>>, [NoRes EXCEPT !.acc = 1], sockets[h])
    /\ UNCHANGED <<ops, woken>>

\* Drop that leaves the handle in the socket set
DropSocket_leak(a) ==
    /\ Running
    /\ adapters[a].alive
    /\ adapters' = [adapters EXCEPT ![a] = DeadAdapter]
    /\ ops' = [t \in Tasks |-> IF ops[t].a = a THEN NoOp ELSE ops[t]]
    /\ last' = Call("drop", a, 0, 0, <<>>, [NoRes EXCEPT !.acc = 1, !.val = Residue(sockets[adapters[a].handle])],
                    sockets[adapters[a].handle])
    /\ UNCHANGED <<sockets, woken>>

\* Drop that removes the socket in the first slot instead of self.handle
DropSocket_first(a) ==
    /\ Running
    /\ adapters[a].alive
    /\ sockets' = sockets_remove(sockets, 1)
    /\ adapters' = [adapters EXCEPT ![a] = DeadAdapter]
    /\ ops' = [t \in Tasks |-> IF ops[t].a = a THEN NoOp ELSE ops[t]]
    /\ last' = Call("drop", a, 0, 0, <<>>, [NoRes EXCEPT !.acc = 1, !.val = Residue(sockets[adapters[a].handle])],
                    sockets[adapters[a].handle])
    /\ UNCHANGED woken

\* Drop for IcmpSocket; the operations borrowing the adapter have ended
DropSocket(a) ==
    /\ Running
    /\ adapters[a].alive
    /\ sockets' = sockets_remove(sockets, adapters[a].handle)
    /\ adapters' = [adapters EXCEPT ![a] = DeadAdapter]
    /\ ops' = [t \in Tasks |-> IF ops[t].a = a THEN NoOp ELSE ops[t]]
    /\ last' = Call("drop", a, 0, 0, <<>>, [NoRes EXCEPT !.acc = 1, !.val = Residue(sockets[adapters[a].handle])],
                    sockets[adapters[a].handle])
    /\ UNCHANGED woken

\* The recv or send polled follows the drop of a pending operation of the
\* same kind on the same adapter.
AfterDrop(op, t, a) ==
    IF ops[t].kind = op
    THEN ops[t].redo
    ELSE op \in {"recv", "send"} /\ last.op = "cancel" /\ last.val = op /\ last.a = a

\* One poll of an operation of task t on adapter a; r is the call's result.
Polled(op, t, a, cap, data, r) ==
    LET h == adapters[a].handle
    IN /\ sockets' = [sockets EXCEPT ![h] = r.sock]
       /\ ops' = [ops EXCEPT ![t] = IF r.poll = "Pending"
                                    THEN [kind |-> op, a |-> a, cap |-> cap, data |-> data,
                                          redo |-> AfterDrop(op, t, a)]
                                    ELSE NoOp]
       /\ woken' = woken \ {t}
       /\ last' = [Call(op, a, t, cap, data, r, sockets[h]) EXCEPT !.redo = AfterDrop(op, t, a)]
       /\ UNCHANGED adapters

\* flush borrows the adapter mutably: it excludes every other operation
CanStart(t, a) ==
    /\ Running
    /\ ops[t] = NoOp
    /\ adapters[a].alive
    /\ \A u \in Tasks : ~(ops[u].kind = "flush" /\ ops[u].a = a)

\* recv: first poll of a new operation
StartRecv(t, a, cap) ==
    /\ CanStart(t, a)
    /\ Polled("recv", t, a, cap, <<>>, poll_recv(sockets[adapters[a].handle], cap, t))

\* recv: a later poll
PollRecv(t) ==
    /\ Running
    /\ ops[t].kind = "recv"
    /\ Polled("recv", t, ops[t].a, ops[t].cap, <<>>,
              poll_recv(sockets[adapters[ops[t].a].handle], ops[t].cap, t))

\* send: first poll
StartSend(t, a, buf) ==
    /\ CanStart(t, a)
    /\ Polled("send", t, a, 0, buf,
              poll_send(adapters[a].endpoint, sockets[adapters[a].handle], buf, t))

\* send: a later poll
PollSend(t) ==
    /\ Running
    /\ ops[t].kind = "send"
    /\ Polled("send", t, ops[t].a, 0, ops[t].data,
              poll_send(adapters[ops[t].a].endpoint, sockets[adapters[ops[t].a].handle],
                        ops[t].data, t))

\* flush: first poll
StartFlush(t, a) ==
    /\ CanStart(t, a)
    /\ \A u \in Tasks : ops[u].a # a
    /\ Polled("flush", t, a, 0, <<>>, poll_flush(sockets[adapters[a].handle], t))

\* flush: a later poll
PollFlush(t) ==
    /\ Running
    /\ ops[t].kind = "flush"
    /\ Polled("flush", t, ops[t].a, 0, <<>>, poll_flush(sockets[adapters[ops[t].a].handle], t))

\* A pending operation's future is dropped
Cancel(t) ==
    /\ Running
    /\ ops[t] # NoOp
    /\ ops' = [ops EXCEPT ![t] = NoOp]
    /\ last' = Call("cancel", ops[t].a, t, ops[t].cap, ops[t].data, [NoRes EXCEPT !.val = ops[t].kind],
                    sockets[adapters[ops[t].a].handle])
    /\ UNCHANGED <<adapters, sockets, woken>>

\* Packet engine, ingress: a datagram for socket h is enqueued if its
\* receive buffer has room, and the registered recv waker is woken.
Deliver(h, d) ==
    /\ Running
    /\ sockets[h].used
    /\ sockets' = [sockets EXCEPT ![h] =
           [@ EXCEPT !.rx = IF HasRoom(@, Len(d.data)) THEN Append(@, d) ELSE @,
                     !.rx_waker = 0]]
    /\ woken' = IF sockets[h].rx_waker = 0 THEN woken ELSE woken \cup {sockets[h].rx_waker}
    /\ last' = Call("deliver", 0, 0, 0, d.data, NoRes, sockets[h])
    /\ UNCHANGED <<adapters, ops>>

\* Packet engine, egress: the head of socket h's transmit buffer leaves
\* it, and the registered send waker is woken.
Transmit(h) ==
    /\ Running
    /\ sockets[h].used
    /\ sockets[h].tx # <<>>
    /\ sockets' = [sockets EXCEPT ![h] = [@ EXCEPT !.tx = Tail(@), !.tx_waker = 0]]
    /\ woken' = IF sockets[h].tx_waker = 0 THEN woken ELSE woken \cup {sockets[h].tx_waker}
    /\ last' = Call("transmit", 0, 0, 0, <<>>, NoRes, sockets[h])
    /\ UNCHANGED <<adapters, ops>>

\* The steps of the callers in TS working on the adapters in AS with the
\* endpoints EPS, the send buffers BUFS and the receive buffer sizes CAPS,
\* and of the packet engine delivering the datagrams PKTS.
Step(AS, TS, EPS, BUFS, CAPS, PKTS) ==
    \/ \E a \in AS, ep \in EPS : New(a, ep)
    \/ \E a \in AS : DropSocket(a)
    \/ \E t \in TS, a \in AS, cap \in CAPS : StartRecv(t, a, cap)
    \/ \E t \in TS : PollRecv(t)
    \/ \E t \in TS, a \in AS, buf \in BUFS : StartSend(t, a, buf)
    \/ \E t \in TS : PollSend(t)
    \/ \E t \in TS, a \in AS : StartFlush(t, a)
    \/ \E t \in TS : PollFlush(t)
    \/ \E t \in TS : Cancel(t)
    \/ \E h \in Handles, d \in PKTS : Deliver(h, d)
    \/ \E h \in Handles : Transmit(h)

\* One adapter, used by two tasks with every input.
Next == Step({1}, {t \in Tasks : t <= 2}, Endpoints, Payloads, Caps, RxPackets)

Spec == Init /\ [][Next]_vars

\* The endpoints that do not end the process, and one-byte datagrams.
SafeEndpoints ==
    {e \in Endpoints : e.kind = "Unspecified" \/ (e.has_addr /\ e.addr # 0 /\ e.port # 0)}
ShortPackets == {p \in RxPackets : p.data = ShortData}

\* Every adapter, used by one task.
NextReg == Step(Adapters, {1}, SafeEndpoints, {ShortData}, {MaxLen}, ShortPackets)

SpecReg == Init /\ [][NextReg]_vars

\* Supported use (one reader and one writer per socket): no recv is polled
\* while another task's recv is pending on the adapter, and no send or flush
\* while another task's send or flush is.
Writes(kind) == kind \in {"send", "flush"}
Supported ==
    last'.op \in {"recv", "send", "flush"} =>
        \A u \in Tasks \ {last'.t} :
            ops[u].a = last'.a => /\ ~(ops[u].kind = "recv" /\ last'.op = "recv")
                                  /\ ~(Writes(ops[u].kind) /\ Writes(last'.op))

\* The scheduler polls a task again after its waker has been woken.
Repoll(t) == t \in woken /\ (PollRecv(t) \/ PollSend(t) \/ PollFlush(t))

\* One adapter, used by two tasks: a reader and a writer can be at work.
NextTasks == Step({1}, {t \in Tasks : t <= 2}, SafeEndpoints, {ShortData}, {MaxLen}, ShortPackets)

NextOne == NextTasks /\ Supported

\* One adapter in supported use, with a scheduler that polls woken tasks.
SpecLive == Init /\ [][NextOne]_vars /\ \A t \in Tasks : WF_vars(Repoll(t))

\* The endpoints with a destination address that send_slice accepts.
NetEndpoints == {e \in SafeEndpoints : e.kind = "Udp"}

\* One adapter used by every task, any number of operations at a time, each
\* pending operation polled again only after its task's waker was woken.
NextWoken ==
    \/ \E ep \in NetEndpoints : New(1, ep)
    \/ DropSocket(1)
    \/ \E t \in Tasks : StartRecv(t, 1, MaxLen)
    \/ \E t \in Tasks : StartSend(t, 1, ShortData)
    \/ \E t \in Tasks : StartFlush(t, 1)
    \/ \E t \in Tasks : Repoll(t)
    \/ \E t \in Tasks : Cancel(t)
    \/ \E h \in Handles, d \in ShortPackets : Deliver(h, d)
    \/ \E h \in Handles : Transmit(h)

SpecWoken == Init /\ [][NextWoken]_vars

\* One adapter in supported use, with a scheduler that polls woken tasks and
\* a packet engine that keeps transmitting what is queued.
SpecDrain ==
    /\ Init /\ [][NextOne]_vars
    /\ \A t \in Tasks : WF_vars(Repoll(t))
    /\ \A h \in Handles : WF_vars(Transmit(h))

\* A send buffer longer than the whole transmit buffer: it never has room.
BigData == [i \in 1..(BufCap + 1) |-> i]

\* One adapter with every endpoint, used by one task whose send buffers
\* include one that the transmit buffer cannot hold.
NextFull == Step({1}, {1}, Endpoints, {ShortData, BigData}, {MaxLen}, ShortPackets)

SpecFull == Init /\ [][NextFull]_vars

\* The address of the host that the socket in slot h stands for when two
\* adapters are used as the two ends of a path.
HostAddr(h) == h

\* Network between paired adapters: the datagram at the head of adapter a's
\* transmit buffer leaves it (send waker woken) and, addressed to the host of
\* adapter b, arrives in b's receive buffer with a's host as source address
\* (recv waker woken); it is lost if that buffer has no room.
Relay(a, b) ==
    /\ Running
    /\ a # b /\ adapters[a].alive /\ adapters[b].alive
    /\ LET ha == adapters[a].handle
           hb == adapters[b].handle
       IN /\ sockets[ha].tx # <<>>
          /\ Head(sockets[ha].tx).addr = HostAddr(hb)
          /\ LET d == [data |-> Head(sockets[ha].tx).data, addr |-> HostAddr(ha)]
             IN /\ sockets' = [sockets EXCEPT
                     ![ha] = [@ EXCEPT !.tx = Tail(@), !.tx_waker = 0],
                     ![hb] = [@ EXCEPT !.rx = IF HasRoom(@, Len(d.data)) THEN Append(@, d) ELSE @,
                                       !.rx_waker = 0]]
                /\ woken' = (woken \cup {sockets[ha].tx_waker, sockets[hb].rx_waker}) \ {0}
                /\ last' = Call("relay", b, 0, 0, d.data, [NoRes EXCEPT !.src = d.addr], sockets[hb])
    /\ UNCHANGED <<adapters, ops>>

\* The two ends of a path.
Pair == {a \in Adapters : a <= 2}

\* Two adapters as the ends of a path, used by one task.
NextNet ==
    \/ \E a \in Pair, ep \in NetEndpoints : New(a, ep)
    \/ \E t \in {1}, a \in Pair, cap \in Caps : StartRecv(t, a, cap)
    \/ \E t \in {1} : PollRecv(t)
    \/ \E t \in {1}, a \in Pair, buf \in Payloads : StartSend(t, a, buf)
    \/ \E t \in {1} : PollSend(t)
    \/ \E t \in {1} : Cancel(t)
    \/ \E a \in Pair, b \in Pair : Relay(a, b)

SpecNet == Init /\ [][NextNet]_vars

\* ------------------------------------------------------------- claims
Used == {h \in Handles : sockets[h].used}
Alive == {a \in Adapters : adapters[a].alive}
AliveHandles == {adapters[a].handle : a \in Alive}
\* The socket of the adapter of the last call, as the call left it.
PostSock == sockets[adapters[last.a].handle]
LastEndpoint == adapters[last.a].endpoint
IsPoll == last.op \in {"recv", "send", "flush"}

C1_Registered == Used = AliveHandles /\ Cardinality(Used) = Cardinality(Alive)

C1_Step ==
    /\ last'.op = "new" =>
           \E h \in Handles \ Used : Used' = Used \cup {h} /\ adapters'[last'.a].handle = h
    /\ last'.op = "drop" =>
           adapters[last'.a].handle \in Used /\ Used' = Used \ {adapters[last'.a].handle}
    /\ last'.op \notin {"new", "drop"} => Used' = Used /\ adapters' = adapters

\* C1: the registry holds exactly the handles of the adapters that are alive;
\* new inserts exactly one handle, drop removes exactly the adapter's own
\* handle, and no other call changes the registry.
C1_RegistryHoldsAliveHandles == []C1_Registered /\ [][C1_Step]_vars

\* An adapter was dropped after one of its polls had returned Pending and
\* left a waker in its socket, while another adapter stays registered.
C1_Witness ==
    /\ last.op = "drop"
    /\ last.pre.rx_waker # 0
    /\ Alive # {}

\* C2: with a datagram queued that fits the caller's buffer, poll_recv
\* returns Ready with the length, source address and bytes of the first
\* datagram, and the receive queue loses exactly that datagram.
C2_RecvTakesFirstDatagram ==
    (last.op = "recv" /\ last.pre.rx # <<>> /\ last.cap >= Len(Head(last.pre.rx).data)) =>
        /\ last.poll = "Ready" /\ last.val = "Ok"
        /\ last.n = Len(Head(last.pre.rx).data)
        /\ last.src = Head(last.pre.rx).addr
        /\ last.bytes = Head(last.pre.rx).data
        /\ PostSock.rx = Tail(last.pre.rx)
        /\ PostSock.tx = last.pre.tx

\* Two different datagrams were queued and recv returned the first.
C2_Witness ==
    /\ last.op = "recv" /\ last.val = "Ok"
    /\ Len(last.pre.rx) = 2
    /\ last.pre.rx[1] # last.pre.rx[2]
    /\ Len(PostSock.rx) = 1

C3_Truncated ==
    (last.op = "recv" /\ last.pre.rx # <<>> /\ last.cap < Len(Head(last.pre.rx).data)) =>
        /\ last.poll = "Ready" /\ last.val = "Truncated"
        /\ PostSock.rx = Tail(last.pre.rx)

C3_NextRecv ==
    (/\ last.op = "recv" /\ last.val = "Truncated"
     /\ last'.op = "recv" /\ last'.a = last.a
     /\ PostSock.rx # <<>> /\ last'.cap >= Len(Head(PostSock.rx).data)) =>
        /\ last'.poll = "Ready" /\ last'.val = "Ok"
        /\ last'.bytes = Head(PostSock.rx).data
        /\ last'.src = Head(PostSock.rx).addr

C4_UnspecifiedSendStaysPending ==
    (last.op = "send" /\ ~is_specified(LastEndpoint)) =>
        /\ last.poll = "Pending"
        /\ last.acc = 0 /\ last.ntf = 0
        /\ PostSock = last.pre
        /\ ops[last.t].kind = "send"

\* A send on an Unspecified endpoint was polled again, with room in the
\* transmit buffer, and is still pending.
C4_Witness ==
    /\ last.op = "send" /\ last.poll = "Pending"
    /\ LastEndpoint.kind = "Unspecified"
    /\ last.prev = [op |-> "send", val |-> "none"]
    /\ PostSock.tx = <<>> /\ PostSock.tx_waker = 0

\* C5: with a Udp endpoint that is specified and has an address, and room in
\* the transmit buffer, poll_send returns Ready and the outbound queue has
\* grown by the one datagram (buffer, endpoint address).
C5_SendEnqueuesOneDatagram ==
    (/\ last.op = "send"
     /\ LastEndpoint.kind = "Udp" /\ LastEndpoint.has_addr /\ is_specified(LastEndpoint)
     /\ HasRoom(last.pre.tx, Len(last.data))) =>
        /\ last.poll = "Ready"
        /\ PostSock.tx = Append(last.pre.tx, [data |-> last.data, addr |-> LastEndpoint.addr])

\* C6: a poll of flush returns Ready exactly when it finds the outbound queue
\* empty; otherwise it returns Pending, registers the caller as send waker
\* and leaves the queue alone.
C6_FlushReadyOnlyWhenEmpty ==
    last.op = "flush" =>
        /\ last.poll = "Ready" <=> Len(last.pre.tx) = 0
        /\ last.poll = "Pending" <=> Len(last.pre.tx) > 0
        /\ last.poll = "Pending" => PostSock.tx_waker = last.t /\ ops[last.t].kind = "flush"
        /\ PostSock.tx = last.pre.tx

\* A flush was polled after a datagram left the transmit buffer and is
\* still pending because another one is queued.
C6_Witness ==
    /\ last.op = "flush" /\ last.poll = "Pending"
    /\ last.prev.op = "transmit"
    /\ Len(last.pre.tx) = 1

C7_Step ==
    /\ (last'.op \in {"recv", "send"} /\ last'.poll = "Pending") =>
           \A h \in Handles :
               /\ sockets'[h].rx = sockets[h].rx
               /\ sockets'[h].tx = sockets[h].tx
               /\ sockets'[h].used = sockets[h].used
    /\ last'.op = "cancel" => sockets' = sockets /\ adapters' = adapters

\* C7: a poll of recv or send that returns Pending changes no receive or
\* outbound queue, and dropping the pending operation changes no socket
\* state at all: only a waker slot can differ from before the operation.
C7_PendingThenDropKeepsQueues == [][C7_Step]_vars

\* A pending recv was dropped and its waker is still registered.
C7_Witness ==
    /\ last.op = "cancel" /\ last.val = "recv"
    /\ PostSock.rx_waker = last.t
    /\ ops[last.t] = NoOp

\* A send on this endpoint reaches send_slice with a destination it accepts.
CanSend(ep) == ep.kind = "Udp" /\ ep.has_addr /\ ep.addr # 0 /\ is_specified(ep)

\* The socket with its waker slots empty, as if no operation had been pending.
NoWakers(s) == [s EXCEPT !.rx_waker = 0, !.tx_waker = 0]

\* The first poll of an operation issued after a pending one was dropped
\* returns what it would return had the dropped operation never run, leaves
\* the queues as it would, and, if Pending under exclusive access, has the
\* new caller's waker in the slot, whatever waker was left there.
C8_FirstPoll ==
    (last.redo /\ last.prev.op = "cancel") =>
        LET r == IF last.op = "recv"
                 THEN poll_recv(NoWakers(last.pre), last.cap, last.t)
                 ELSE poll_send(LastEndpoint, NoWakers(last.pre), last.data, last.t)
        IN /\ last.op \in {"recv", "send"}
           /\ last.poll = r.poll /\ last.val = r.val
           /\ last.n = r.n /\ last.src = r.src /\ last.bytes = r.bytes
           /\ PostSock.rx = r.sock.rx /\ PostSock.tx = r.sock.tx
           /\ (last.op = "recv" /\ last.poll = "Pending") => PostSock.rx_waker = last.t
           /\ (last.op = "send" /\ last.poll = "Pending" /\ last.acc = 1) =>
                  PostSock.tx_waker = last.t

\* A pending recv or send that needs an event to complete has its waker
\* registered, or its task has been woken and will be polled.
C8_WakerInPlace ==
    \A t \in Tasks :
        /\ ops[t].kind = "recv" =>
               sockets[adapters[ops[t].a].handle].rx_waker = t \/ t \in woken
        /\ (ops[t].kind = "send" /\ CanSend(adapters[ops[t].a].endpoint)) =>
               sockets[adapters[ops[t].a].handle].tx_waker = t \/ t \in woken

RedoPending(t, kind) == ops[t].kind = kind /\ ops[t].redo
Resolved(t, kind) == ops[t].kind # kind \/ ~Running

C9_SendNeverPanics == last.op = "send" => last.poll \in {"Ready", "Pending"}

C11_SendThenRelay ==
    (/\ last.op = "send" /\ last.poll = "Ready" /\ last.pre.tx = <<>>
     /\ last'.op = "relay" /\ last'.src = HostAddr(adapters[last.a].handle)) =>
        /\ last'.data = last.data
        /\ HostAddr(adapters[last'.a].handle) = adapters[last.a].endpoint.addr

\* The network has put a datagram into an empty receive buffer and the next
\* call is a recv on that adapter with a buffer that can hold the datagram.
C11_RelayThenRecv ==
    (/\ last.op = "relay" /\ last.pre.rx = <<>>
     /\ last'.op = "recv" /\ last'.a = last.a /\ last'.cap >= Len(last.data)) =>
        /\ last'.poll = "Ready" /\ last'.val = "Ok"
        /\ last'.bytes = last.data
        /\ last'.n = Len(last.data)
        /\ last'.src = last.src

\* C11: a completed send on one adapter, the network carrying the datagram to
\* the paired adapter, and a recv there with a buffer no shorter than the
\* datagram: the recv returns the sent bytes, their length and the address of
\* the sender's host.
C11_RoundTrip == [][C11_SendThenRelay]_vars /\ [][C11_RelayThenRecv]_vars

\* A recv returned the long datagram that the network had just carried from
\* the other adapter, whose host address it reports as source.
C11_Witness ==
    /\ last.op = "recv" /\ last.val = "Ok"
    /\ last.prev.op = "relay"
    /\ last.bytes = LongData /\ last.n = MaxLen
    /\ \E a \in Alive \ {last.a} : last.src = HostAddr(adapters[a].handle)

\* The socket a new adapter gets has empty queues and no wakers.
C12_Fresh == last.op = "new" => PostSock = icmp_Socket_new

\* The first poll on a new adapter, before anything arrives: a recv returns
\* Pending, and a flush returns Ready because the outbound queue depth is 0.
C12_FirstPoll ==
    (last.op = "new" /\ last'.a = last.a) =>
        /\ last'.op = "recv" => last'.poll = "Pending"
        /\ last'.op = "flush" => last'.poll = "Ready" /\ send_queue(last'.pre) = 0

\* C12: an adapter created after another was dropped with datagrams still
\* queued, in the registry slot the dropped one had, starts with empty
\* queues: its first poll_recv before any arrival returns Pending and its
\* outbound queue depth is 0.
C12_NoResidue == []C12_Fresh /\ [][C12_FirstPoll]_vars

\* An adapter was created right after one that was dropped with datagrams
\* queued, and it got the slot of the dropped one.
C12_Witness ==
    /\ last.op = "new"
    /\ last.prev = [op |-> "drop", val |-> "queued"]
    /\ adapters[last.a].handle = 1

C14_FullSendWaits ==
    (/\ last.op = "send"
     /\ LastEndpoint.kind = "Udp" /\ LastEndpoint.has_addr /\ is_specified(LastEndpoint)) =>
        /\ ~HasRoom(last.pre.tx, Len(last.data)) =>
               /\ last.poll = "Pending"
               /\ PostSock = [last.pre EXCEPT !.tx_waker = last.t]
               /\ ops[last.t].kind = "send"
        /\ (last.prev.op = "transmit" /\ HasRoom(last.pre.tx, Len(last.data))) =>
               /\ last.poll = "Ready"
               /\ PostSock.tx = Append(last.pre.tx, [data |-> last.data, addr |-> LastEndpoint.addr])

\* Task u waits in a recv that nothing will wake: its waker is neither
\* woken nor registered in any waker slot.
Starved(u) ==
    /\ ops[u].kind = "recv"
    /\ u \notin woken
    /\ \A h \in Handles : sockets[h].rx_waker # u /\ sockets[h].tx_waker # u

\* A poll_recv that returns Pending leaves its caller in the one recv waker
\* slot, whichever waker was there.
C15_Replaces == (last.op = "recv" /\ last.poll = "Pending") => PostSock.rx_waker = last.t

\* An arrival wakes the registered recv waker and no other task.
C15_WakesOne ==
    last'.op = "deliver" => woken' = woken \cup ({last'.pre.rx_waker} \ {0})

\* A starved recv stays starved while its caller keeps waiting for it.
C15_StaysStarved ==
    \A u \in Tasks : (Starved(u) /\ ops'[u] = ops[u]) => Starved(u)'

\* C15: the recv waker is one slot per socket. With two recv operations
\* pending on an adapter the later registration replaces the earlier one, an
\* arrival wakes only the waker registered last, and the earlier caller, its
\* waker gone, is not woken by anything that happens afterwards.
C15_SingleWakerSlot ==
    /\ []C15_Replaces
    /\ [][C15_WakesOne]_vars
    /\ [][C15_StaysStarved]_vars

\* Two recv operations were pending; a datagram arrived, woke the later
\* caller, which took it, while the earlier caller is still suspended with
\* no waker registered.
C15_Witness ==
    /\ last.op = "recv" /\ last.val = "Ok" /\ last.prev.op = "deliver"
    /\ PostSock.rx = <<>> /\ PostSock.rx_waker = 0
    /\ \E u \in Tasks \ {last.t} : Starved(u) /\ ops[u].a = last.a

\* The calls of the adapter that look at or change the interface state.
Touches ==
    \/ last.op \in {"new", "drop", "recv", "flush"}
    \/ last.op = "send" /\ is_specified(LastEndpoint)
                        /\ LastEndpoint.kind = "Udp" /\ LastEndpoint.has_addr

C17_Distinct ==
    \A a \in Alive, b \in Alive : a # b => adapters[a].handle # adapters[b].handle

C17_NewIsFree ==
    /\ last'.op = "new" => adapters'[last'.a].handle \notin AliveHandles
    /\ \A b \in Alive : adapters'[b].alive => adapters'[b].handle = adapters[b].handle

\* C17: adapters alive at the same time hold different handles: new returns
\* a handle that no alive adapter holds, and an adapter keeps its handle
\* until it is dropped.
C17_HandlesNotShared == []C17_Distinct /\ [][C17_NewIsFree]_vars

\* With another adapter alive, new handed out again the handle of an adapter
\* that had just been dropped.
C17_Witness ==
    /\ last.op = "new" /\ last.prev.op = "drop"
    /\ Cardinality(Alive) = 2
    /\ adapters[last.a].handle = 1

\* The socket that task t's pending operation works on.
OpSock(t) == sockets[adapters[ops[t].a].handle]

\* While a recv is pending, either the receive queue is empty and the
\* caller's waker is registered, or the caller has been woken.
C18_Armed ==
    \A t \in Tasks :
        ops[t].kind = "recv" =>
            \/ t \in woken
            \/ OpSock(t).rx = <<>> /\ OpSock(t).rx_waker = t

\* C18: with a single reader no wake-up is lost: a pending recv never sits
\* unwoken next to a datagram, since emptiness check and waker registration
\* are one access, and once a datagram has been delivered the recv is
\* polled again and returns Ready.
C18_NoLostWakeup ==
    /\ []C18_Armed
    /\ \A t \in Tasks :
           (ops[t].kind = "recv" /\ OpSock(t).rx # <<>>) ~> Resolved(t, "recv")

\* A datagram was delivered while a recv was pending, and the delivery woke
\* the recv's caller.
C18_Witness ==
    /\ last.op = "deliver"
    /\ \E t \in Tasks :
           /\ ops[t].kind = "recv" /\ ~ops[t].redo
           /\ last.pre.rx_waker = t /\ t \in woken
           /\ OpSock(t).rx # <<>>

\* A flush that finds the outbound queue empty returns Ready and registers
\* no waker.
C19_EmptyReady ==
    (last.op = "flush" /\ last.pre.tx = <<>>) => last.poll = "Ready" /\ PostSock = last.pre

\* While a flush is pending, either datagrams are queued and the caller's
\* waker is the send waker, or the caller has been woken.
C19_Armed ==
    \A t \in Tasks :
        ops[t].kind = "flush" =>
            \/ t \in woken
            \/ OpSock(t).tx # <<>> /\ OpSock(t).tx_waker = t

\* C19: with a packet engine that keeps transmitting queued datagrams and
\* wakes the send waker for each, and a scheduler that polls woken tasks, a
\* pending flush returns; a flush that finds the outbound queue empty returns
\* Ready at once and registers no waker.
C19_FlushReturns ==
    /\ [](C19_EmptyReady /\ C19_Armed)
    /\ \A t \in Tasks : (ops[t].kind = "flush") ~> Resolved(t, "flush")

\* The packet engine transmitted the last queued datagram and woke the
\* caller of a pending flush.
C19_Witness ==
    /\ last.op = "transmit"
    /\ \E t \in Tasks :
           /\ ops[t].kind = "flush"
           /\ last.pre.tx_waker = t /\ t \in woken
           /\ OpSock(t).tx = <<>>

====
